---- MODULE Spec2Model ----
(***************************************************************************)
(* Model of the Chennai electricity analytics program:                     *)
(*   src/chennai_electricity_analytics_main.py  (ChennaiElectricityAnalytics, main) *)
(*   src/chennai_electricity_standalone.py  (ChennaiElectricityStandalone)  *)
(*                                                                         *)
(* State: the CSV files on disk, the dataset registry self.data, the       *)
(* position of main() inside generate_comprehensive_report, the text       *)
(* printed so far and the derived tables each analysis computes.           *)
(* One action per method called by generate_comprehensive_report.          *)
(*                                                                         *)
(* Numbers.  Column values read from the files are non-negative integers.  *)
(* A computed float is a record [k, n, d]: k = "num" is the rational n/d   *)
(* in lowest terms (d > 0), k = "inf" is +infinity, k = "nan" is NaN (what *)
(* numpy and pandas produce for x/0 and 0/0; they do not raise), and       *)
(* k = "none" is "not computed".  Arithmetic on "num" is exact.            *)
(***************************************************************************)
EXTENDS Integers, Sequences, FiniteSets, TLC

VARIABLES
    files,        \* the working directory: dataset key -> table held by its CSV file (keys of existing files only)
    unreadable,   \* keys whose file exists but pd.read_csv cannot parse it
    data,         \* self.data: dataset key -> loaded table
    pc,           \* position of main() / generate_comprehensive_report
    printed,      \* the lines printed so far: sequence of [kind, key, val]
    load_result,  \* return value of load_all_data: "none" | "true" | "false"
    demand_cagr,  \* analyze_historical_trends: local demand_cagr
    cost_cagr,    \* analyze_historical_trends: local cost_cagr
    monthly_avg,  \* analyze_seasonal_patterns: rows [Month, Demand_MU, Seasonal_Index]
    peak_months,  \* analyze_seasonal_patterns: rows of nlargest(3)
    low_months,   \* analyze_seasonal_patterns: rows of nsmallest(3)
    sector_growth,\* analyze_sector_wise_consumption: rows [Sector, growth]
    weekday_avg,  \* create_daily_load_profile: rows [Hour, Demand_MW]
    weekend_avg,  \* create_daily_load_profile: rows [Hour, Demand_MW]
    raised,       \* the step whose exception reached main(), or "none"
    error         \* that exception: [type, text], text being str(e)

vars == <<files, unreadable, data, pc, printed, load_result, demand_cagr, cost_cagr,
          monthly_avg, peak_months, low_months, sector_growth, weekday_avg,
          weekend_avg, raised, error>>

----------------------------------------------------------------------------
(* Floating point values *)

RECURSIVE GCD(_, _)
GCD(a, b) == IF b = 0 THEN a ELSE GCD(b, a % b)

Abs(x) == IF x < 0 THEN -x ELSE x

\* the rational n/d (d /= 0) in lowest terms with a positive denominator
Num(n, d) ==
    LET g == GCD(Abs(n), Abs(d))
        s == IF d < 0 THEN -1 ELSE 1
    IN  [k |-> "num", n |-> s * (n \div g), d |-> s * (d \div g)]

Int2F(i) == [k |-> "num", n |-> i, d |-> 1]
NaN      == [k |-> "nan", n |-> 0, d |-> 1]
Inf      == [k |-> "inf", n |-> 0, d |-> 1]
None     == [k |-> "none", n |-> 0, d |-> 1]

IsNull(x) == x.k = "nan"

\* a / b for non-negative a, as numpy float64 division: x/0 = inf, 0/0 = nan
FDiv(a, b) ==
    IF a.k = "nan" \/ b.k = "nan" THEN NaN
    ELSE IF a.k = "inf" THEN (IF b.k = "inf" THEN NaN ELSE Inf)
    ELSE IF b.k = "inf" THEN Int2F(0)
    ELSE IF b.n = 0 THEN (IF a.n = 0 THEN NaN ELSE Inf)
    ELSE Num(a.n * b.d, a.d * b.n)

\* a + b (never inf + -inf: there is no -inf among the values)
FAdd(a, b) ==
    IF a.k = "nan" \/ b.k = "nan" THEN NaN
    ELSE IF a.k = "inf" \/ b.k = "inf" THEN Inf
    ELSE Num(a.n * b.d + b.n * a.d, a.d * b.d)

\* a * c for a positive integer c
FScale(a, c) ==
    IF a.k = "num" THEN Num(a.n * c, a.d) ELSE a

\* a <= b on finite values
FLeq(a, b) == a.n * b.d <= b.n * a.d


RECURSIVE Pow(_, _)
Pow(b, e) == IF e = 0 THEN 1 ELSE b * Pow(b, e - 1)

\* the '* 100' that turns a ratio into a percentage
Percent == 100

\* the exponent 1/4 of the CAGR: the number of periods the code assumes
CagrPeriods == 4

\* g^p <= x, for g, x >= 0, without forming g^p
RECURSIVE PowLeq(_, _, _)
PowLeq(g, p, x) ==
    IF p = 0 THEN 1 <= x
    ELSE IF g = 0 THEN TRUE
    ELSE PowLeq(g, p - 1, x \div g)

\* greatest g in lo .. hi-1 with g^p <= x, given lo^p <= x < hi^p
RECURSIVE Bisect(_, _, _, _)
Bisect(x, p, lo, hi) ==
    IF hi - lo <= 1 THEN lo
    ELSE LET mid == (lo + hi) \div 2 IN
         IF PowLeq(mid, p, x) THEN Bisect(x, p, mid, hi) ELSE Bisect(x, p, lo, mid)

\* floor of the p-th root of x >= 0, p >= 1
RootFloor(x, p) == Bisect(x, p, 0, x + 1)

\* r ** (1/p) for r >= 0, p >= 1: the root is kept to two decimal places,
\* truncated (greatest g/100 with (g/100)^p <= r), so that the CAGR below is
\* the computed value truncated to a whole percent.
FRoot(r, p) ==
    IF r.k = "num"
    THEN Num(RootFloor((r.n * Pow(Percent, p)) \div r.d, p), Percent)
    ELSE r

\* ((last / first) ** (1/periods) - 1) * 100 on numpy scalars
CagrOver(first, last, periods) ==
    FScale(FAdd(FRoot(FDiv(Int2F(last), Int2F(first)), periods), Int2F(-1)), Percent)

----------------------------------------------------------------------------
(* Tables: a table is a sequence of rows, a row is a record *)

Col(t, c) == [i \in 1..Len(t) |-> t[i][c]]

RECURSIVE SumSeq(_)
SumSeq(s) == IF s = <<>> THEN 0 ELSE Head(s) + SumSeq(Tail(s))

RECURSIVE FSumSeq(_)
FSumSeq(s) == IF s = <<>> THEN Int2F(0) ELSE FAdd(Head(s), FSumSeq(Tail(s)))

\* Series.mean() of a float column; the mean of an empty column is NaN
FMean(s) == FDiv(FSumSeq(s), Int2F(Len(s)))

\* Series.pct_change() * 100 of an integer column: row 1 is NaN, row i is
\* (col[i] / col[i-1] - 1) * 100, rows taken in the order the table has
PctChange(col) ==
    [i \in 1..Len(col) |->
        IF i = 1 THEN NaN
        ELSE FScale(FAdd(FDiv(Int2F(col[i]), Int2F(col[i - 1])), Int2F(-1)), Percent)]

\* df.groupby(keycol)[valcol].mean().reset_index(): one row per distinct key,
\* in sorted key order (order lists every possible key, sorted)
GroupMean(t, keycol, valcol, order) ==
    LET Occurs(k) == \E i \in 1..Len(t) : t[i][keycol] = k
        keys == SelectSeq(order, Occurs)
        Vals(k) == LET Is(r) == r[keycol] = k IN Col(SelectSeq(t, Is), valcol)
    IN  [j \in 1..Len(keys) |->
            [key |-> keys[j],
             val |-> Num(SumSeq(Vals(keys[j])), Len(Vals(keys[j])))]]

\* number of rows that DataFrame.nlargest(n, col) puts before row i: a larger
\* value, or the same value earlier in the table (keep = 'first')
LargerBefore(t, col, i) ==
    Cardinality({j \in 1..Len(t) :
        IF t[j][col] = t[i][col] THEN j < i ELSE ~FLeq(t[j][col], t[i][col])})

SmallerBefore(t, col, i) ==
    Cardinality({j \in 1..Len(t) :
        IF t[j][col] = t[i][col] THEN j < i ELSE ~FLeq(t[i][col], t[j][col])})

Min(a, b) == IF a < b THEN a ELSE b

\* head(n) in place of nlargest(n, col)
NLargestHead(n, t, col) == [p \in 1..Min(n, Len(t)) |-> t[p]]

\* t.nlargest(n, col): the n rows with the largest col, largest first
NLargest(n, t, col) ==
    [p \in 1..Min(n, Len(t)) |->
        t[CHOOSE i \in 1..Len(t) : LargerBefore(t, col, i) = p - 1]]

\* t.nsmallest(n, col): the n rows with the smallest col, smallest first
NSmallest(n, t, col) ==
    [p \in 1..Min(n, Len(t)) |->
        t[CHOOSE i \in 1..Len(t) : SmallerBefore(t, col, i) = p - 1]]

----------------------------------------------------------------------------
(* The datasets *)

\* data_files, in the order the dict is iterated
KeyOrder == <<"historical", "monthly_detailed", "projections", "sector_wise",
              "daily_load", "infrastructure", "economic", "weather", "tariff">>

Keys == {KeyOrder[i] : i \in 1..Len(KeyOrder)}

Put(f, k, v) == [x \in DOMAIN f \cup {k} |-> IF x = k THEN v ELSE f[x]]

Line(kind, key, val) == [kind |-> kind, key |-> key, val |-> val]

\* load_all_data without 'except FileNotFoundError': a missing file ends the load
RECURSIVE LoadLoopNoCatch(_, _, _)
LoadLoopNoCatch(i, d, out) ==
    IF i > Len(KeyOrder)
    THEN [data |-> d, ok |-> TRUE,
          out |-> Append(out, Line("loaded_count", "", Int2F(Cardinality(DOMAIN d))))]
    ELSE LET k == KeyOrder[i] IN
         IF k \notin DOMAIN files \/ k \in unreadable
         THEN [data |-> d, ok |-> FALSE, out |-> Append(out, Line("load_error", k, None))]
         ELSE LoadLoopNoCatch(i + 1, Put(d, k, files[k]),
                              Append(out, Line("loaded", k, Int2F(Len(files[k])))))

\* the for loop of load_all_data from KeyOrder[i] on, d the registry and out the
\* output so far: a missing file is skipped with a warning; any other read
\* error leaves the loop and the method through 'except Exception'
RECURSIVE LoadLoop(_, _, _)
LoadLoop(i, d, out) ==
    IF i > Len(KeyOrder)
    THEN [data |-> d, ok |-> TRUE,
          out |-> Append(out, Line("loaded_count", "", Int2F(Cardinality(DOMAIN d))))]
    ELSE LET k == KeyOrder[i] IN
         IF k \notin DOMAIN files
         THEN LoadLoop(i + 1, d, Append(out, Line("not_found", k, None)))
         ELSE IF k \in unreadable
         THEN [data |-> d, ok |-> FALSE, out |-> Append(out, Line("load_error", k, None))]
         ELSE LoadLoop(i + 1, Put(d, k, files[k]),
                       Append(out, Line("loaded", k, Int2F(Len(files[k])))))

\* display_data_summary: one block per registry entry, in insertion order
SummaryLines ==
    LET Loaded(k) == k \in DOMAIN data
        ks == SelectSeq(KeyOrder, Loaded)
    IN  [i \in 1..Len(ks) |-> Line("summary", ks[i], Int2F(Len(data[ks[i]])))]

----------------------------------------------------------------------------
(* analyze_historical_trends *)

\* the columns analyze_historical_trends reads, in the order it reads them
HistColumns == <<"Demand_MU", "Cost_Rs_per_unit", "Peak_Demand_MW">>

\* c in df.columns (a table without rows is modelled with every column)
HasCol(df, c) == \A i \in 1..Len(df) : c \in DOMAIN df[i]

\* an assignment that rebuilds the table without its Year column
SetColDroppingYear(df, c, vals) ==
    [i \in 1..Len(df) |->
        [x \in (DOMAIN df[i] \ {"Year"}) \cup {c} |-> IF x = c THEN vals[i] ELSE df[i][x]]]

\* df[c] = vals: the column is added, or replaced, in place
SetCol(df, c, vals) ==
    [i \in 1..Len(df) |->
        [x \in DOMAIN df[i] \cup {c} |-> IF x = c THEN vals[i] ELSE df[i][x]]]

\* df['Demand_Growth_%'] = df['Demand_MU'].pct_change() * 100
WithDemandGrowth(df) == SetCol(df, "Demand_Growth_pct", PctChange(Col(df, "Demand_MU")))

\* df['Cost_Growth_%'] = df['Cost_Rs_per_unit'].pct_change() * 100
WithCostGrowth(df) == SetCol(df, "Cost_Growth_pct", PctChange(Col(df, "Cost_Rs_per_unit")))

\* both assignments (df is the registry's table)
WithGrowth(df) == WithCostGrowth(WithDemandGrowth(df))

\* the CAGR of a column: .iloc[0] to .iloc[-1] over the fixed 1/4 exponent
Cagr(col) == CagrOver(col[1], col[Len(col)], CagrPeriods)

----------------------------------------------------------------------------
(* analyze_seasonal_patterns *)

\* the month names of the bounded model, in the sorted order groupby gives them
MonthOrder == <<"Apr", "Aug", "Dec", "Feb">>

\* nlargest(3, ...) / nsmallest(3, ...)
TopN == 3

\* monthly_avg with the index taken against the mean of all rows, not the
\* mean of the per-month means
MonthlyAvgOverRows(df) ==
    LET g == GroupMean(df, "Month", "Demand_MU", MonthOrder)
        m == FDiv(Int2F(SumSeq(Col(df, "Demand_MU"))), Int2F(Len(df)))
    IN  [i \in 1..Len(g) |->
            [Month |-> g[i].key, Demand_MU |-> g[i].val,
             Seasonal_Index |-> FDiv(g[i].val, m)]]

\* monthly_avg: per-month mean demand and Seasonal_Index = mean / mean of the means
MonthlyAvg(df) ==
    LET g == GroupMean(df, "Month", "Demand_MU", MonthOrder)
        m == FMean(Col(g, "val"))
    IN  [i \in 1..Len(g) |->
            [Month |-> g[i].key, Demand_MU |-> g[i].val,
             Seasonal_Index |-> FDiv(g[i].val, m)]]

PeakMonths(avg) == NLargest(TopN, avg, "Demand_MU")
LowMonths(avg)  == NSmallest(TopN, avg, "Demand_MU")

----------------------------------------------------------------------------
(* analyze_sector_wise_consumption *)

\* df[df['Year'] == 2025], df[df['Year'] == 2030]
BaseYear == 2025
TargetYear == 2030

\* the sector names, sorted (the order an outer join of two indexes yields)
SectorOrder == <<"Agriculture", "Commercial", "Domestic", "Industrial", "Others">>

OfYear(df, y) == LET Is(r) == r.Year = y IN SelectSeq(df, Is)

\* value of the row of t labelled s (labels are unique within a year)
At(t, s) == t[CHOOSE i \in 1..Len(t) : t[i].Sector = s].Demand_MU

\* (b.set_index('Sector')['Demand_MU'] / a.set_index('Sector')['Demand_MU'] - 1) * 100:
\* pandas aligns the two series on their labels.  With equal indexes the
\* result keeps their order; otherwise it is indexed by the sorted union of
\* the labels and a label missing on either side gets NaN.
SectorGrowth(a, b) ==
    LET la == Col(a, "Sector")
        lb == Col(b, "Sector")
        InEither(s) == (\E i \in 1..Len(la) : la[i] = s) \/ (\E i \in 1..Len(lb) : lb[i] = s)
        InBoth(s) == (\E i \in 1..Len(la) : la[i] = s) /\ (\E i \in 1..Len(lb) : lb[i] = s)
        idx == IF la = lb THEN lb ELSE SelectSeq(SectorOrder, InEither)
    IN  [i \in 1..Len(idx) |->
            [Sector |-> idx[i],
             growth |-> IF InBoth(idx[i])
                        THEN FScale(FAdd(FDiv(Int2F(At(b, idx[i])), Int2F(At(a, idx[i]))),
                                         Int2F(-1)), Percent)
                        ELSE NaN]]

----------------------------------------------------------------------------
(* create_daily_load_profile *)

WeekendDays == {"Saturday", "Sunday"}

\* bound: the hours of a day are 0 .. NumHours - 1
NumHours == 2

HourOrder == [i \in 1..NumHours |-> i - 1]

\* a weekend filter that forgets Saturday
WeekendDataSundayOnly(df) == LET Is(r) == r.Day = "Sunday" IN SelectSeq(df, Is)

\* df[df['Day'].isin([...])] and df[~df['Day'].isin([...])]
WeekendData(df) == LET Is(r) == r.Day \in WeekendDays IN SelectSeq(df, Is)
WeekdayData(df) == LET Is(r) == ~(r.Day \in WeekendDays) IN SelectSeq(df, Is)

\* part.groupby('Hour')['Demand_MW'].mean()
HourlyAvg(part) ==
    LET g == GroupMean(part, "Hour", "Demand_MW", HourOrder)
    IN  [i \in 1..Len(g) |-> [Hour |-> g[i].key, Demand_MW |-> g[i].val]]

----------------------------------------------------------------------------
(* chart steps *)

\* heatmap: df.pivot(index='Year', columns='Month_Num', values='Demand_MU')
\* raises ValueError when two rows share (Year, Month_Num)
PivotFails(df) ==
    \E i, j \in 1..Len(df) :
        i < j /\ df[i].Year = df[j].Year /\ df[i].Month_Num = df[j].Month_Num

\* pie: explode=(0.05, 0.05, 0.05, 0.05, 0.05)
ExplodeLen == 5

\* plt.pie raises ValueError unless explode is as long as the data
PieFails(df) == Len(OfYear(df, BaseYear)) # ExplodeLen

----------------------------------------------------------------------------
(* main() -> generate_comprehensive_report(): one action per method called *)

metrics == <<demand_cagr, cost_cagr, monthly_avg, peak_months, low_months,
             sector_growth, weekday_avg, weekend_avg>>
disk == <<files, unreadable>>
exc == <<raised, error>>

\* no exception in flight
NoError == [type |-> "none", text |-> ""]

\* str(e) of the exceptions pandas and matplotlib raise in the steps
IndexErrorText == "single positional indexer is out-of-bounds"
PivotErrorText == "Index contains duplicate entries, cannot reshape"
ExplodeErrorText == "'explode' must be of length 'x'"

\* str(KeyError(c)): the repr of the missing column label, nothing else
KeyErrorText(c) == "'" \o c \o "'"

Raise(type, text) == [type |-> type, text |-> text]

\* the print that announces a step, made by generate_comprehensive_report
\* before it calls the step's method
Begin(step) == Append(printed, Line("step", step, None))

\* ... followed by the method's "not available" message
Unavailable(step, key) == Append(Begin(step), Line("unavailable", key, None))

\* self.load_all_data(): the return value is ignored by the caller
LoadAllData ==
    /\ pc = "load"
    /\ LET r == LoadLoop(1, data, printed) IN
          /\ data' = r.data
          /\ printed' = r.out
          /\ load_result' = IF r.ok THEN "true" ELSE "false"
    /\ pc' = "summary"
    /\ UNCHANGED <<disk, metrics, exc>>

\* self.display_data_summary()
DisplayDataSummary ==
    /\ pc = "summary"
    /\ printed' = printed \o SummaryLines
    /\ pc' = "historical"
    /\ UNCHANGED <<disk, data, load_result, metrics, exc>>

\* self.analyze_historical_trends(): df is the registry's table, so each
\* growth column is in the registry as soon as it is assigned.  A missing
\* column raises KeyError where it is first read; .iloc[-1] raises
\* IndexError on an empty table.
AnalyzeHistoricalTrends ==
    /\ pc = "historical"
    /\ IF "historical" \notin DOMAIN data
       THEN /\ printed' = Unavailable("historical", "historical")
            /\ pc' = "seasonal"
            /\ UNCHANGED <<data, demand_cagr, cost_cagr, exc>>
       ELSE IF ~HasCol(data["historical"], "Demand_MU")
       THEN /\ pc' = "except"
            /\ raised' = "historical"
            /\ error' = Raise("KeyError", KeyErrorText("Demand_MU"))
            /\ printed' = Begin("historical")
            /\ UNCHANGED <<data, demand_cagr, cost_cagr>>
       ELSE IF ~HasCol(data["historical"], "Cost_Rs_per_unit")
       THEN /\ data' = Put(data, "historical", WithDemandGrowth(data["historical"]))
            /\ pc' = "except"
            /\ raised' = "historical"
            /\ error' = Raise("KeyError", KeyErrorText("Cost_Rs_per_unit"))
            /\ printed' = Begin("historical")
            /\ UNCHANGED <<demand_cagr, cost_cagr>>
       ELSE LET df == WithGrowth(data["historical"]) IN
            /\ data' = Put(data, "historical", df)
            /\ IF Len(df) = 0
               THEN /\ pc' = "except"
                    /\ raised' = "historical"
                    /\ error' = Raise("IndexError", IndexErrorText)
                    /\ printed' = Begin("historical")
                    /\ UNCHANGED <<demand_cagr, cost_cagr>>
               ELSE /\ demand_cagr' = Cagr(Col(df, "Demand_MU"))
                    /\ cost_cagr' = Cagr(Col(df, "Cost_Rs_per_unit"))
                    /\ IF ~HasCol(df, "Peak_Demand_MW")
                       THEN /\ printed' = Begin("historical") \o
                                  << Line("demand_cagr", "historical", demand_cagr'),
                                     Line("cost_cagr", "historical", cost_cagr') >>
                            /\ pc' = "except"
                            /\ raised' = "historical"
                            /\ error' = Raise("KeyError", KeyErrorText("Peak_Demand_MW"))
                       ELSE /\ printed' = Begin("historical") \o
                                  << Line("demand_cagr", "historical", demand_cagr'),
                                     Line("cost_cagr", "historical", cost_cagr'),
                                     Line("peak_growth", "historical",
                                          Int2F(df[Len(df)].Peak_Demand_MW - df[1].Peak_Demand_MW)) >>
                            /\ pc' = "seasonal"
                            /\ UNCHANGED exc
    /\ UNCHANGED <<disk, load_result, monthly_avg, peak_months, low_months,
                   sector_growth, weekday_avg, weekend_avg>>

MonthLines(kind, t) ==
    [i \in 1..Len(t) |-> Line(kind, t[i].Month, t[i].Demand_MU)]

\* self.analyze_seasonal_patterns()
AnalyzeSeasonalPatterns ==
    /\ pc = "seasonal"
    /\ IF "monthly_detailed" \notin DOMAIN data
       THEN /\ printed' = Unavailable("seasonal", "monthly_detailed")
            /\ UNCHANGED <<monthly_avg, peak_months, low_months>>
       ELSE /\ monthly_avg' = MonthlyAvg(data["monthly_detailed"])
            /\ peak_months' = PeakMonths(monthly_avg')
            /\ low_months' = LowMonths(monthly_avg')
            /\ printed' = Begin("seasonal") \o MonthLines("peak_month", peak_months')
                                  \o MonthLines("low_month", low_months')
    /\ pc' = "sector"
    /\ UNCHANGED <<disk, data, load_result, demand_cagr, cost_cagr, sector_growth,
                   weekday_avg, weekend_avg, exc>>

SectorLines(kind, t) ==
    [i \in 1..Len(t) |-> Line(kind, t[i].Sector, Int2F(t[i].Demand_MU))]

GrowthLines(t) ==
    [i \in 1..Len(t) |-> Line("sector_growth", t[i].Sector, t[i].growth)]

\* self.analyze_sector_wise_consumption()
AnalyzeSectorWiseConsumption ==
    /\ pc = "sector"
    /\ IF "sector_wise" \notin DOMAIN data
       THEN /\ printed' = Unavailable("sector", "sector_wise")
            /\ UNCHANGED sector_growth
       ELSE LET df == data["sector_wise"]
                df_2025 == OfYear(df, BaseYear)
                df_2030 == OfYear(df, TargetYear)
            IN  /\ sector_growth' = SectorGrowth(df_2025, df_2030)
                /\ printed' = Begin("sector") \o SectorLines("sector_2025", df_2025)
                                      \o SectorLines("sector_2030", df_2030)
                                      \o GrowthLines(sector_growth')
    /\ pc' = "projection_chart"
    /\ UNCHANGED <<disk, data, load_result, demand_cagr, cost_cagr, monthly_avg,
                   peak_months, low_months, weekday_avg, weekend_avg, exc>>

\* self.create_demand_projection_chart()
CreateDemandProjectionChart ==
    /\ pc = "projection_chart"
    /\ printed' = IF "projections" \notin DOMAIN data
                  THEN Unavailable("projection_chart", "projections")
                  ELSE Append(Begin("projection_chart"), Line("chart", "projections", None))
    /\ pc' = "heatmap"
    /\ UNCHANGED <<disk, data, load_result, metrics, exc>>

\* self.create_seasonal_heatmap()
CreateSeasonalHeatmap ==
    /\ pc = "heatmap"
    /\ IF "monthly_detailed" \notin DOMAIN data
       THEN /\ printed' = Unavailable("heatmap", "monthly_detailed")
            /\ pc' = "pie"
            /\ UNCHANGED exc
       ELSE IF PivotFails(data["monthly_detailed"])
       THEN /\ pc' = "except"
            /\ raised' = "heatmap"
            /\ error' = Raise("ValueError", PivotErrorText)
            /\ printed' = Begin("heatmap")
       ELSE /\ printed' = Append(Begin("heatmap"), Line("chart", "monthly_detailed", None))
            /\ pc' = "pie"
            /\ UNCHANGED exc
    /\ UNCHANGED <<disk, data, load_result, metrics>>

\* self.create_sector_pie_chart()
CreateSectorPieChart ==
    /\ pc = "pie"
    /\ IF "sector_wise" \notin DOMAIN data
       THEN /\ printed' = Unavailable("pie", "sector_wise")
            /\ pc' = "daily_load"
            /\ UNCHANGED exc
       ELSE IF PieFails(data["sector_wise"])
       THEN /\ pc' = "except"
            /\ raised' = "pie"
            /\ error' = Raise("ValueError", ExplodeErrorText)
            /\ printed' = Begin("pie")
       ELSE /\ printed' = Append(Begin("pie"), Line("chart", "sector_wise", None))
            /\ pc' = "daily_load"
            /\ UNCHANGED exc
    /\ UNCHANGED <<disk, data, load_result, metrics>>

\* self.create_daily_load_profile()
CreateDailyLoadProfile ==
    /\ pc = "daily_load"
    /\ IF "daily_load" \notin DOMAIN data
       THEN /\ printed' = Unavailable("daily_load", "daily_load")
            /\ UNCHANGED <<weekday_avg, weekend_avg>>
       ELSE /\ weekday_avg' = HourlyAvg(WeekdayData(data["daily_load"]))
            /\ weekend_avg' = HourlyAvg(WeekendData(data["daily_load"]))
            /\ printed' = Append(Begin("daily_load"), Line("chart", "daily_load", None))
    /\ pc' = "infrastructure"
    /\ UNCHANGED <<disk, data, load_result, demand_cagr, cost_cagr, monthly_avg,
                   peak_months, low_months, sector_growth, exc>>

\* self.create_infrastructure_dashboard()
CreateInfrastructureDashboard ==
    /\ pc = "infrastructure"
    /\ printed' = IF "infrastructure" \notin DOMAIN data
                  THEN Unavailable("infrastructure", "infrastructure")
                  ELSE Append(Begin("infrastructure"), Line("chart", "infrastructure", None))
    /\ pc' = "complete"
    /\ UNCHANGED <<disk, data, load_result, metrics, exc>>

\* the closing prints of generate_comprehensive_report; main() then returns
Complete ==
    /\ pc = "complete"
    /\ printed' = Append(printed, Line("completed", "", None))
    /\ pc' = "exit"
    /\ UNCHANGED <<disk, data, load_result, metrics, exc>>

\* main(): except Exception as e: print(...)
MainExcept ==
    /\ pc = "except"
    /\ printed' = Append(printed, Line("main_error", error.text, None))
    /\ pc' = "exit"
    /\ UNCHANGED <<disk, data, load_result, metrics, exc>>

Next ==
    \/ LoadAllData
    \/ DisplayDataSummary
    \/ AnalyzeHistoricalTrends
    \/ AnalyzeSeasonalPatterns
    \/ AnalyzeSectorWiseConsumption
    \/ CreateDemandProjectionChart
    \/ CreateSeasonalHeatmap
    \/ CreateSectorPieChart
    \/ CreateDailyLoadProfile
    \/ CreateInfrastructureDashboard
    \/ Complete
    \/ MainExcept

----------------------------------------------------------------------------
(* The input files *)

\* first year of the historical file: "HISTORICAL TRENDS ANALYSIS (2020-2024)"
FirstYear == 2020

\* bound: rows of the historical table
MaxHistRows == 3

DemandVals == {0, 1, 4}
CostVals == {0, 2}

HistRow(y, d, c) ==
    [Year |-> y, Demand_MU |-> d, Cost_Rs_per_unit |-> c, Peak_Demand_MW |-> d + c]

Perms(n) == {f \in [1..n -> 1..n] : \A i, j \in 1..n : i # j => f[i] # f[j]}

\* every historical table of n rows: the years FirstYear .. FirstYear+n-1 in
\* any row order (read_csv keeps the order of the file), any values
HistTablesOfLen(n) ==
    {[i \in 1..n |-> HistRow(FirstYear + perm[i] - 1, dem[i], cost[i])] :
        perm \in Perms(n), dem \in [1..n -> DemandVals], cost \in [1..n -> CostVals]}

HistTables == UNION {HistTablesOfLen(n) : n \in 0..MaxHistRows}

HistSamples ==
    { <<>>,
      <<HistRow(FirstYear, 1, 2), HistRow(FirstYear + 1, 1, 2), HistRow(FirstYear + 2, 4, 2)>> }

MonthNum(m) ==
    CASE m = "Apr" -> 4 [] m = "Aug" -> 8 [] m = "Dec" -> 12 [] m = "Feb" -> 2

MonthRow(y, m, d) == [Year |-> y, Month |-> m, Month_Num |-> MonthNum(m), Demand_MU |-> d]

MonthlySamples ==
    { <<MonthRow(BaseYear, "Feb", 1), MonthRow(BaseYear, "Apr", 4),
        MonthRow(BaseYear, "Aug", 2), MonthRow(BaseYear, "Dec", 1)>>,
      <<MonthRow(BaseYear, "Feb", 1), MonthRow(BaseYear, "Feb", 2)>> }

SectorRow(y, s, d) == [Year |-> y, Sector |-> s, Demand_MU |-> d]

SectorSamples ==
    { [i \in 1..(2 * Len(SectorOrder)) |->
          IF i <= Len(SectorOrder)
          THEN SectorRow(BaseYear, SectorOrder[i], i)
          ELSE SectorRow(TargetYear, SectorOrder[i - Len(SectorOrder)], i)],
      <<SectorRow(BaseYear, "Domestic", 2), SectorRow(TargetYear, "Domestic", 3)>> }

DailyRow(day, h, d) == [Day |-> day, Hour |-> h, Demand_MW |-> d]

DailySamples ==
    { <<DailyRow("Monday", 0, 1), DailyRow("Saturday", 0, 3), DailyRow("Sunday", 1, 2)>> }

\* a table of a dataset whose contents no modelled computation reads
OtherTable == << [Year |-> BaseYear] >>

TableFor(k, h, m, s, d) ==
    CASE k = "historical" -> h
      [] k = "monthly_detailed" -> m
      [] k = "sector_wise" -> s
      [] k = "daily_load" -> d
      [] OTHER -> OtherTable

NoData == [k \in {} |-> <<>>]

\* the state after ChennaiElectricityAnalytics(): an empty registry; the
\* files present are one of P, holding tables of H, M, S, D; the unparsable
\* files are one of U
InitWith(P, H, M, S, D, U) ==
    /\ \E present \in P, h \in H, m \in M, s \in S, d \in D :
          files = [k \in present |-> TableFor(k, h, m, s, d)]
    /\ unreadable \in {u \in U : u \subseteq DOMAIN files}
    /\ data = NoData
    /\ pc = "load"
    /\ printed = <<>>
    /\ load_result = "none"
    /\ demand_cagr = None
    /\ cost_cagr = None
    /\ monthly_avg = <<>>
    /\ peak_months = <<>>
    /\ low_months = <<>>
    /\ sector_growth = <<>>
    /\ weekday_avg = <<>>
    /\ weekend_avg = <<>>
    /\ raised = "none"
    /\ error = NoError

\* one run of main() in a directory holding any subset of the nine files
Init ==
    InitWith(SUBSET Keys, HistSamples, MonthlySamples, SectorSamples, DailySamples,
             {{}} \cup {{k} : k \in Keys})

Spec == Init /\ [][Next]_vars

\* runs over every historical table, the other files absent or present
InitHist ==
    InitWith({{"historical"}, Keys}, HistTables, MonthlySamples, SectorSamples,
             DailySamples, {{}})

SpecHist == InitHist /\ [][Next]_vars

----------------------------------------------------------------------------
(* Historical files with columns missing *)

\* bound: rows of a historical table that lacks columns
SchemaRows == 2

\* the columns of the historical file
HistFileColumns == {"Year", "Demand_MU", "Cost_Rs_per_unit", "Peak_Demand_MW"}

\* the table read from a file whose header lacks the columns cs
DropCols(t, cs) == [i \in 1..Len(t) |-> [x \in DOMAIN t[i] \ cs |-> t[i][x]]]

SchemaTables ==
    {DropCols(t, cs) : t \in HistTablesOfLen(SchemaRows), cs \in SUBSET HistFileColumns}

InitSchema ==
    InitWith({{"historical"}, Keys}, SchemaTables, MonthlySamples, SectorSamples,
             DailySamples, {{}})

SpecSchema == InitSchema /\ [][Next]_vars

----------------------------------------------------------------------------
(* load_all_data called again on the same instance, the files changing *)

\* bound: calls of load_all_data on the instance
MaxLoads == 2

\* the files that come and go
ReloadKeys == {"historical", "projections", "weather"}

\* calls of load_all_data so far: each one ends with its count line
NumLoads == Cardinality({i \in 1..Len(printed) : printed[i].kind = "loaded_count"})

\* analytics.load_all_data() called by a client holding the instance:
\* self.data is what the earlier calls left
CallLoadAllData ==
    /\ pc = "client"
    /\ NumLoads < MaxLoads
    /\ LET r == LoadLoop(1, data, printed) IN
          /\ data' = r.data
          /\ printed' = r.out
          /\ load_result' = IF r.ok THEN "true" ELSE "false"
    /\ UNCHANGED <<disk, pc, metrics, exc>>

\* between two calls a file is put into the directory ...
FileAppears(k) ==
    /\ pc = "client"
    /\ k \notin DOMAIN files
    /\ \E h \in HistSamples :
          files' = Put(files, k, TableFor(k, h, <<>>, <<>>, <<>>))
    /\ UNCHANGED <<unreadable, data, pc, printed, load_result, metrics, exc>>

\* ... or removed from it
FileDisappears(k) ==
    /\ pc = "client"
    /\ k \in DOMAIN files
    /\ files' = [x \in DOMAIN files \ {k} |-> files[x]]
    /\ unreadable' = unreadable \ {k}
    /\ UNCHANGED <<data, pc, printed, load_result, metrics, exc>>

NextReload ==
    \/ CallLoadAllData
    \/ \E k \in ReloadKeys : FileAppears(k)
    \/ \E k \in ReloadKeys : FileDisappears(k)

\* a fresh instance in the hands of a client, any of the files present
InitReload ==
    /\ \E present \in SUBSET ReloadKeys, h \in HistSamples :
          files = [k \in present |-> TableFor(k, h, <<>>, <<>>, <<>>)]
    /\ unreadable = {}
    /\ data = NoData
    /\ pc = "client"
    /\ printed = <<>>
    /\ load_result = "none"
    /\ demand_cagr = None
    /\ cost_cagr = None
    /\ monthly_avg = <<>>
    /\ peak_months = <<>>
    /\ low_months = <<>>
    /\ sector_growth = <<>>
    /\ weekday_avg = <<>>
    /\ weekend_avg = <<>>
    /\ raised = "none"
    /\ error = NoError

SpecReload == InitReload /\ [][NextReload]_vars

----------------------------------------------------------------------------
(* src/chennai_electricity_standalone.py: ChennaiElectricityStandalone        *)
(* run_complete_analysis() on a fresh instance.  files is the working       *)
(* directory (CSV file name -> table), data is self.data.  The generated    *)
(* tables are modelled by their key columns; their float columns are left   *)
(* out.  A step can fail for a reason outside the program (memory, the      *)
(* plotting backend, the disk), at any point between two of its writes.     *)

\* the datasets in the order generate_and_analyze_data stores them and
\* save_data_to_csv writes them
GenOrder == <<"projections", "sector", "monthly", "scenarios">>

StandaloneSectors == <<"Domestic", "Commercial", "Industrial", "Agriculture", "Others">>

ScenarioNames == <<"Conservative", "Base Case", "Aggressive">>

Generated(k) ==
    CASE k = "projections" -> [i \in 1..6 |-> [Year |-> BaseYear + i - 1]]
      [] k = "sector" ->
            [i \in 1..30 |-> [Year |-> BaseYear + ((i - 1) \div 5),
                              Sector |-> StandaloneSectors[((i - 1) % 5) + 1]]]
      [] k = "monthly" -> [i \in 1..12 |-> [Month_Num |-> i]]
      [] k = "scenarios" -> [i \in 1..3 |-> [Scenario |-> ScenarioNames[i]]]

CsvName(k) ==
    CASE k = "projections" -> "generated_projections.csv"
      [] k = "sector" -> "generated_sector_data.csv"
      [] k = "monthly" -> "generated_monthly_data.csv"
      [] k = "scenarios" -> "generated_scenarios.csv"

CsvNames == {CsvName(GenOrder[i]) : i \in 1..Len(GenOrder)}

\* what a file of that name holds before the run
StaleTable == << [Year |-> FirstYear] >>

\* what a write that failed half-way leaves in the file
TruncatedTable == <<>>

RunOrder == <<"generate", "key_metrics", "visualizations", "save_csv">>

\* the position after a step that returned normally
StepAfter(step) ==
    CASE step = "generate" -> "key_metrics"
      [] step = "key_metrics" -> "visualizations"
      [] step = "visualizations" -> "save_csv"
      [] step = "save_csv" -> "banner"

\* a handler around each single step: the run carries on with the next step
OnExceptionResume(step) == StepAfter(step)

\* the one try block around all four steps: an exception raised in a step
\* leaves the block for 'except Exception'
OnException(step) == "caught"

\* str(e) of a failure that comes from outside the program
EnvironmentErrorText == "environment"

\* the first of the keys ks that self.data lacks, or "" if it has them all
FirstMissing(ks) ==
    IF \A i \in 1..Len(ks) : ks[i] \in DOMAIN data
    THEN ""
    ELSE ks[CHOOSE i \in 1..Len(ks) :
                /\ ks[i] \notin DOMAIN data
                /\ \A j \in 1..(i - 1) : ks[j] \in DOMAIN data]

RECURSIVE StoreFirst(_, _)
\* self.data after the first n assignments of generate_and_analyze_data
StoreFirst(n, d) ==
    IF n = 0 THEN d
    ELSE Put(StoreFirst(n - 1, d), GenOrder[n], Generated(GenOrder[n]))

RECURSIVE WriteFirst(_, _)
\* the directory after the first n to_csv calls of save_data_to_csv
WriteFirst(n, f) ==
    IF n = 0 THEN f
    ELSE Put(WriteFirst(n - 1, f), CsvName(GenOrder[n]), data[GenOrder[n]])

\* a step ends in an exception
Fails(step, type, text) ==
    /\ pc' = OnException(step)
    /\ raised' = step
    /\ error' = Raise(type, text)

\* a step returns
Returns(step) ==
    /\ pc' = StepAfter(step)
    /\ UNCHANGED exc

standalone_frame == <<unreadable, load_result, metrics>>

\* Step 1, self.generate_and_analyze_data(): four assignments to self.data
GenerateAndAnalyzeData ==
    /\ pc = "generate"
    /\ \E n \in 0..Len(GenOrder) :
          /\ data' = StoreFirst(n, data)
          /\ IF n = Len(GenOrder)
             THEN /\ printed' = Append(Begin("generate"), Line("generated", "", None))
                  /\ Returns("generate")
             ELSE /\ printed' = Begin("generate")
                  /\ Fails("generate", "Exception", EnvironmentErrorText)
    /\ UNCHANGED <<files, standalone_frame>>

\* Step 2, self.display_key_metrics(): reads projections, monthly, sector
DisplayKeyMetrics ==
    /\ pc = "key_metrics"
    /\ LET missing == FirstMissing(<<"projections", "monthly", "sector">>) IN
       IF missing # ""
       THEN /\ printed' = Begin("key_metrics")
            /\ Fails("key_metrics", "KeyError", KeyErrorText(missing))
       ELSE \E fails \in BOOLEAN :
               IF fails
               THEN /\ printed' = Begin("key_metrics")
                    /\ Fails("key_metrics", "Exception", EnvironmentErrorText)
               ELSE /\ printed' = Append(Begin("key_metrics"), Line("metrics", "", None))
                    /\ Returns("key_metrics")
    /\ UNCHANGED <<files, data, standalone_frame>>

\* Step 3, self.create_comprehensive_visualizations(): reads all four
\* datasets, draws the figure and shows it
CreateComprehensiveVisualizations ==
    /\ pc = "visualizations"
    /\ LET missing == FirstMissing(<<"projections", "sector", "monthly", "scenarios">>) IN
       IF missing # ""
       THEN /\ printed' = Begin("visualizations")
            /\ Fails("visualizations", "KeyError", KeyErrorText(missing))
       ELSE \E fails \in BOOLEAN :
               IF fails
               THEN /\ printed' = Begin("visualizations")
                    /\ Fails("visualizations", "Exception", EnvironmentErrorText)
               ELSE /\ printed' = Append(Begin("visualizations"), Line("chart", "", None))
                    /\ Returns("visualizations")
    /\ UNCHANGED <<files, data, standalone_frame>>

SavedLines == [i \in 1..Len(GenOrder) |-> Line("saved", CsvName(GenOrder[i]), None)]

\* Step 4, self.save_data_to_csv(): four to_csv calls, then the four
\* confirmations.  A call that fails leaves its file untouched or truncated
\* and the files after it untouched.
SaveDataToCsv ==
    /\ pc = "save_csv"
    /\ LET missing == FirstMissing(GenOrder)
           writable == IF missing = "" THEN Len(GenOrder)
                       ELSE (CHOOSE i \in 1..Len(GenOrder) : GenOrder[i] = missing) - 1
       IN  \E n \in 0..writable :
              IF n = Len(GenOrder)
              THEN /\ files' = WriteFirst(n, files)
                   /\ printed' = Begin("save_csv") \o SavedLines
                   /\ Returns("save_csv")
              ELSE IF n = writable /\ missing # ""
              THEN /\ files' = WriteFirst(n, files)
                   /\ printed' = Begin("save_csv")
                   /\ Fails("save_csv", "KeyError", KeyErrorText(missing))
              ELSE /\ \E truncated \in BOOLEAN :
                         files' = IF truncated
                                  THEN Put(WriteFirst(n, files), CsvName(GenOrder[n + 1]),
                                           TruncatedTable)
                                  ELSE WriteFirst(n, files)
                   /\ printed' = Begin("save_csv")
                   /\ Fails("save_csv", "Exception", EnvironmentErrorText)
    /\ UNCHANGED <<data, standalone_frame>>

\* the closing prints of the try block
AnalysisCompleted ==
    /\ pc = "banner"
    /\ printed' = Append(printed, Line("banner", "", None))
    /\ pc' = "returned"
    /\ UNCHANGED <<files, data, standalone_frame, exc>>

\* except Exception as e: print(f"Error during analysis: {str(e)}")
RunExcept ==
    /\ pc = "caught"
    /\ printed' = Append(printed, Line("analysis_error", error.text, None))
    /\ pc' = "returned"
    /\ UNCHANGED <<files, data, standalone_frame, exc>>

\* analyzer.run_complete_analysis()
NextStandalone ==
    \/ GenerateAndAnalyzeData
    \/ DisplayKeyMetrics
    \/ CreateComprehensiveVisualizations
    \/ SaveDataToCsv
    \/ AnalysisCompleted
    \/ RunExcept

\* ChennaiElectricityStandalone() in a directory that may hold files of the
\* four names from earlier
InitStandalone ==
    /\ \E present \in SUBSET CsvNames : files = [f \in present |-> StaleTable]
    /\ unreadable = {}
    /\ data = NoData
    /\ pc = "generate"
    /\ printed = <<>>
    /\ load_result = "none"
    /\ demand_cagr = None
    /\ cost_cagr = None
    /\ monthly_avg = <<>>
    /\ peak_months = <<>>
    /\ low_months = <<>>
    /\ sector_growth = <<>>
    /\ weekday_avg = <<>>
    /\ weekend_avg = <<>>
    /\ raised = "none"
    /\ error = NoError

SpecStandalone == InitStandalone /\ [][NextStandalone]_vars

----------------------------------------------------------------------------
(* Monthly tables: for every month a block of 0 .. MaxPerMonth rows *)

\* bound: rows one month has in the monthly table
MaxPerMonth == 2

MonthlyVals == {0, 3}

\* first year of the monthly file (chennai_electricity_monthly_detailed_2023_2025.csv)
MonthlyFirstYear == 2023

Blocks == UNION {[1..n -> MonthlyVals] : n \in 0..MaxPerMonth}

\* the rows of month number mi (in MonthOrder) with demands b, one row a year
MonthBlock(mi, b) ==
    [j \in 1..Len(b) |-> MonthRow(MonthlyFirstYear + j - 1, MonthOrder[mi], b[j])]

RECURSIVE Concat(_)
Concat(ss) == IF ss = <<>> THEN <<>> ELSE Head(ss) \o Concat(Tail(ss))

\* every such table, and the samples (one of them with a month twice in a year)
MonthlyTables ==
    {Concat([mi \in 1..Len(MonthOrder) |-> MonthBlock(mi, bs[mi])]) :
        bs \in [1..Len(MonthOrder) -> Blocks]}
    \cup MonthlySamples

InitSeasonal ==
    InitWith({{"monthly_detailed"}}, HistSamples, MonthlyTables, SectorSamples,
             DailySamples, {{}})

SpecSeasonal == InitSeasonal /\ [][Next]_vars

----------------------------------------------------------------------------
(* Sector tables: any set of sectors in 2025 and any set in 2030 *)

SectorIdx == 1..Len(SectorOrder)

Reverse(q) == [i \in 1..Len(q) |-> q[Len(q) + 1 - i]]

\* the rows of year y for the sectors of A, with demand base + position
YearBlock(y, A, base) ==
    LET In(i) == i \in A
        is == SelectSeq([i \in SectorIdx |-> i], In)
    IN  [j \in 1..Len(is) |-> SectorRow(y, SectorOrder[is[j]], base + is[j] - 1)]

SectorTables ==
    {YearBlock(BaseYear, A, v25)
        \o (IF rev THEN Reverse(YearBlock(TargetYear, B, v30))
                   ELSE YearBlock(TargetYear, B, v30)) :
        A \in SUBSET SectorIdx, B \in SUBSET SectorIdx, rev \in BOOLEAN,
        v25 \in {0, 2}, v30 \in {0, 3}}

InitSector ==
    InitWith({{"sector_wise", "daily_load"}}, HistSamples, MonthlySamples, SectorTables,
             DailySamples, {{}})

SpecSector == InitSector /\ [][Next]_vars

----------------------------------------------------------------------------
(* Daily load tables *)

\* bound: rows of the daily load table
MaxDailyRows == 3

Days == {"Monday", "Saturday", "Sunday"}
LoadVals == {1, 3}

DailyTables ==
    UNION {[1..n -> {DailyRow(day, h, d) : day \in Days, h \in 0..(NumHours - 1),
                                            d \in LoadVals}] :
           n \in 0..MaxDailyRows}

\* runs over every daily load table, and the runs of the sample table beside
\* a historical file
InitDaily ==
    \/ InitWith({{"daily_load"}}, HistSamples, MonthlySamples, SectorSamples,
                DailyTables, {{}})
    \/ InitWith({{"daily_load", "historical"}}, HistSamples, MonthlySamples,
                SectorSamples, DailySamples, {{}})

SpecDaily == InitDaily /\ [][Next]_vars

----------------------------------------------------------------------------
(* Properties *)

\* the steps of the report that read a dataset, and the key each one reads
StepSet == {"historical", "seasonal", "sector", "projection_chart", "heatmap",
            "pie", "daily_load", "infrastructure"}

StepKey(s) ==
    CASE s = "historical" -> "historical"
      [] s = "seasonal" -> "monthly_detailed"
      [] s = "sector" -> "sector_wise"
      [] s = "projection_chart" -> "projections"
      [] s = "heatmap" -> "monthly_detailed"
      [] s = "pie" -> "sector_wise"
      [] s = "daily_load" -> "daily_load"
      [] s = "infrastructure" -> "infrastructure"

\* step s has been started
RanStep(s) == \E i \in 1..Len(printed) : printed[i] = Line("step", s, None)

\* step s answered "not available" for key k and returned
SaidUnavailable(s, k) ==
    \E i \in 1..(Len(printed) - 1) :
        /\ printed[i] = Line("step", s, None)
        /\ printed[i + 1] = Line("unavailable", k, None)

Printed(kind) == \E i \in 1..Len(printed) : printed[i].kind = kind

\* C1: whatever files are missing (the others being readable), load_all_data
\* returns True and the registry holds exactly the keys of the files found;
\* every step whose key is absent says "not available" and does not raise; a
\* run that ends without the completion message ended in a step whose dataset
\* is present.
C1_MissingFilesAreSkipped ==
    /\ (pc # "load" /\ unreadable = {}) =>
           (load_result = "true" /\ DOMAIN data = DOMAIN files)
    /\ \A s \in StepSet :
           (RanStep(s) /\ StepKey(s) \notin DOMAIN data) =>
               (raised # s /\ SaidUnavailable(s, StepKey(s)))
    /\ (pc = "exit" /\ ~Printed("completed")) =>
           (raised \in StepSet /\ StepKey(raised) \in DOMAIN data)
    /\ (pc = "exit" /\ \A s \in StepSet : StepKey(s) \notin DOMAIN data) =>
           printed[Len(printed)] = Line("completed", "", None)

C1_Witness ==
    /\ pc = "exit"
    /\ unreadable = {}
    /\ DOMAIN files = {"projections", "daily_load", "weather"}
    /\ load_result = "true"
    /\ SaidUnavailable("historical", "historical")
    /\ SaidUnavailable("pie", "sector_wise")
    /\ Printed("completed")

\* C2: whatever step raises, the failure is logged and every step of the
\* report has been attempted when the run ends.
C2_EveryStepAttempted ==
    pc = "exit" =>
        /\ raised # "none" => Printed("main_error")
        /\ \A s \in StepSet : RanStep(s)

Hist == data["historical"]

\* analyze_historical_trends has run on a loaded historical table
HistAnalysed == "historical" \in DOMAIN data /\ RanStep("historical")

\* C3: no CAGR line is printed for a metric whose first value is 0.
C3_NoCagrLineForZeroFirstValue ==
    \A i \in 1..Len(printed) :
        /\ printed[i].kind = "demand_cagr" => Hist[1].Demand_MU # 0
        /\ printed[i].kind = "cost_cagr" => Hist[1].Cost_Rs_per_unit # 0

\* C4: the reported CAGR of a table of N >= 2 rows is the rate over N - 1
\* periods: first * (1 + CAGR/100)^(N-1) = last.
C4_CagrOverRowsMinusOne ==
    (HistAnalysed /\ Len(Hist) >= 2) =>
        /\ demand_cagr = CagrOver(Hist[1].Demand_MU, Hist[Len(Hist)].Demand_MU,
                                  Len(Hist) - 1)
        /\ cost_cagr = CagrOver(Hist[1].Cost_Rs_per_unit,
                                Hist[Len(Hist)].Cost_Rs_per_unit, Len(Hist) - 1)

\* C5: with N >= 2 rows each growth column has exactly one null, in row 1.
C5_OneNullGrowthValue ==
    (HistAnalysed /\ Len(Hist) >= 2) =>
        /\ {i \in 1..Len(Hist) : IsNull(Hist[i].Demand_Growth_pct)} = {1}
        /\ {i \in 1..Len(Hist) : IsNull(Hist[i].Cost_Growth_pct)} = {1}

\* row j is the chronologically preceding period of row i
Precedes(t, j, i) ==
    /\ t[j].Year < t[i].Year
    /\ \A k \in 1..Len(t) : t[k].Year < t[i].Year => t[k].Year <= t[j].Year

\* (now - before) / before * 100
GrowthOver(before, now) ==
    FScale(FDiv(Int2F(now - before), Int2F(before)), Percent)

\* C6: the growth of a row is taken over the chronologically preceding row,
\* whatever the order of the rows in the table.
C6_GrowthOverPrecedingYear ==
    HistAnalysed =>
        \A i, j \in 1..Len(Hist) :
            Precedes(Hist, j, i) =>
                /\ Hist[i].Demand_Growth_pct
                      = GrowthOver(Hist[j].Demand_MU, Hist[i].Demand_MU)
                /\ Hist[i].Cost_Growth_pct
                      = GrowthOver(Hist[j].Cost_Rs_per_unit, Hist[i].Cost_Rs_per_unit)

Sect == data["sector_wise"]

\* analyze_sector_wise_consumption has run on a loaded sector table
SectorAnalysed == "sector_wise" \in DOMAIN data /\ RanStep("sector")

SectorsOf(t, y) == {t[i].Sector : i \in {k \in 1..Len(t) : t[k].Year = y}}

DemandOf(t, y, s) ==
    t[CHOOSE i \in 1..Len(t) : t[i].Year = y /\ t[i].Sector = s].Demand_MU

\* C7: the sector growth holds every sector of both years exactly once, with
\* (demand_2030 / demand_2025 - 1) * 100, holds no sector of one year only,
\* and such a sector is reported with a warning.
C7_GrowthOfSharedSectorsOnly ==
    SectorAnalysed =>
        LET shared == SectorsOf(Sect, BaseYear) \cap SectorsOf(Sect, TargetYear)
            either == SectorsOf(Sect, BaseYear) \cup SectorsOf(Sect, TargetYear)
        IN  /\ \A s \in shared :
                   /\ Cardinality({i \in 1..Len(sector_growth) :
                                       sector_growth[i].Sector = s}) = 1
                   /\ \E i \in 1..Len(sector_growth) :
                          /\ sector_growth[i].Sector = s
                          /\ sector_growth[i].growth =
                                FScale(FAdd(FDiv(Int2F(DemandOf(Sect, TargetYear, s)),
                                                 Int2F(DemandOf(Sect, BaseYear, s))),
                                            Int2F(-1)), Percent)
            /\ \A i \in 1..Len(sector_growth) : sector_growth[i].Sector \in shared
            /\ \A s \in either \ shared :
                   \E i \in 1..Len(printed) :
                       printed[i].kind = "warning" /\ printed[i].key = s

Monthly == data["monthly_detailed"]

\* analyze_seasonal_patterns has run on a loaded monthly table
SeasonalAnalysed == "monthly_detailed" \in DOMAIN data /\ RanStep("seasonal")

IndexSum == FSumSeq(Col(monthly_avg, "Seasonal_Index"))

\* C8 as stated: for every non-empty monthly table the Seasonal_Index values
\* sum to the number of month groups (they average to 1).
C8_IndexAveragesToOne ==
    (SeasonalAnalysed /\ Len(Monthly) > 0) => IndexSum = Int2F(Len(monthly_avg))

\* C8 as amended: ... for every monthly table whose per-month averages do not
\* sum to zero, also with months of different numbers of rows.
C8_IndexAveragesToOneUnlessZeroMean ==
    (SeasonalAnalysed /\ FSumSeq(Col(monthly_avg, "Demand_MU")) # Int2F(0)) =>
        IndexSum = Int2F(Len(monthly_avg))

RowsOfMonth(t, m) == Cardinality({i \in 1..Len(t) : t[i].Month = m})

\* months with different numbers of rows and different averages
C8_Witness ==
    /\ SeasonalAnalysed
    /\ RowsOfMonth(Monthly, "Apr") = 2
    /\ RowsOfMonth(Monthly, "Aug") = 1
    /\ Len(monthly_avg) = 3
    /\ monthly_avg[1].Demand_MU = Num(3, 2)
    /\ monthly_avg[2].Demand_MU = Int2F(3)
    /\ monthly_avg[1].Seasonal_Index # Int2F(1)
    /\ IndexSum = Int2F(3)

MonthsIn(t) == {t[i].Month : i \in 1..Len(t)}

\* C9: the peak months are the min(3, G) groups with the largest averages,
\* the low months the min(3, G) groups with the smallest.
C9_PeakAndLowMonths ==
    SeasonalAnalysed =>
        /\ Len(peak_months) = Min(TopN, Len(monthly_avg))
        /\ Len(low_months) = Min(TopN, Len(monthly_avg))
        /\ Cardinality(MonthsIn(peak_months)) = Len(peak_months)
        /\ Cardinality(MonthsIn(low_months)) = Len(low_months)
        /\ \A p \in 1..Len(peak_months) :
               \E i \in 1..Len(monthly_avg) : monthly_avg[i] = peak_months[p]
        /\ \A p \in 1..Len(low_months) :
               \E i \in 1..Len(monthly_avg) : monthly_avg[i] = low_months[p]
        /\ \A p \in 1..Len(peak_months), i \in 1..Len(monthly_avg) :
               monthly_avg[i].Month \notin MonthsIn(peak_months) =>
                   FLeq(monthly_avg[i].Demand_MU, peak_months[p].Demand_MU)
        /\ \A p \in 1..Len(low_months), i \in 1..Len(monthly_avg) :
               monthly_avg[i].Month \notin MonthsIn(low_months) =>
                   FLeq(low_months[p].Demand_MU, monthly_avg[i].Demand_MU)

\* four groups, the first one the smallest: it is not a peak month, the
\* largest one is not a low month
C9_Witness ==
    /\ SeasonalAnalysed
    /\ Len(monthly_avg) = TopN + 1
    /\ Len(peak_months) = TopN
    /\ monthly_avg[1].Demand_MU = Int2F(0)
    /\ monthly_avg[1].Month \notin MonthsIn(peak_months)
    /\ monthly_avg[2].Demand_MU = Int2F(3)
    /\ monthly_avg[2].Month \notin MonthsIn(low_months)
    /\ monthly_avg[3].Demand_MU = Num(3, 2)
    /\ monthly_avg[4].Demand_MU = Num(3, 2)

Daily == data["daily_load"]

\* create_daily_load_profile has run on a loaded daily load table
DailyAnalysed == "daily_load" \in DOMAIN data /\ RanStep("daily_load")

RECURSIVE SumOver(_, _)
SumOver(I, t) ==
    IF I = {} THEN 0
    ELSE LET i == CHOOSE x \in I : TRUE IN t[i].Demand_MW + SumOver(I \ {i}, t)

\* the rows of hour h on the weekend (we = TRUE) or on weekdays (we = FALSE)
RowsAt(t, we, h) ==
    {i \in 1..Len(t) : t[i].Hour = h /\ ((t[i].Day \in {"Saturday", "Sunday"}) <=> we)}

\* profile p is the hourly average of the weekend rows (we) or the weekday rows
IsProfileOf(p, t, we) ==
    /\ Cardinality({p[i].Hour : i \in 1..Len(p)}) = Len(p)
    /\ {p[i].Hour : i \in 1..Len(p)} = {t[i].Hour : i \in {k \in 1..Len(t) : RowsAt(t, we, t[k].Hour) # {}}}
    /\ \A i \in 1..Len(p) :
           p[i].Demand_MW = Num(SumOver(RowsAt(t, we, p[i].Hour), t),
                                Cardinality(RowsAt(t, we, p[i].Hour)))

\* C10: every row is in exactly one of the weekday and the weekend partition
\* (weekend iff Day is Saturday or Sunday), each profile has one average per
\* hour of its partition, and at most as many buckets as the day has hours.
C10_WeekdayWeekendProfiles ==
    DailyAnalysed =>
        /\ IsProfileOf(weekend_avg, Daily, TRUE)
        /\ IsProfileOf(weekday_avg, Daily, FALSE)
        /\ Len(weekend_avg) <= NumHours
        /\ Len(weekday_avg) <= NumHours
        /\ \A i \in 1..Len(Daily) :
               (i \in RowsAt(Daily, TRUE, Daily[i].Hour))
                   # (i \in RowsAt(Daily, FALSE, Daily[i].Hour))

\* a Saturday and a Sunday row averaged in one weekend bucket, beside a
\* weekday bucket of the same hour with another value
C10_Witness ==
    /\ DailyAnalysed
    /\ Len(Daily) = 3
    /\ Daily[1].Day = "Saturday" /\ Daily[2].Day = "Monday" /\ Daily[3].Day = "Sunday"
    /\ Daily[1].Hour = Daily[2].Hour /\ Daily[2].Hour = Daily[3].Hour
    /\ Len(weekend_avg) = 1 /\ weekend_avg[1].Demand_MW = Int2F(2)
    /\ Len(weekday_avg) = 1 /\ weekday_avg[1].Demand_MW = Int2F(3)

----------------------------------------------------------------------------
(* C11: a missing column *)

\* the text of the error main() printed
MainErrorText == printed[CHOOSE i \in 1..Len(printed) : printed[i].kind = "main_error"].key

\* the message names the column or dataset n: it quotes the label
Mentions(text, n) == text = KeyErrorText(n)

\* first column of HistColumns the loaded file lacks
MissingAt(i) ==
    /\ ~HasCol(files["historical"], HistColumns[i])
    /\ \A j \in 1..(i - 1) : HasCol(files["historical"], HistColumns[j])

\* C11: when the historical file lacks a column the analysis reads, the run
\* ends in an error that names both that column and the dataset 'historical'
C11_ErrorNamesColumnAndDataset ==
    \A i \in 1..Len(HistColumns) :
        (pc = "exit" /\ "historical" \in DOMAIN data /\ MissingAt(i)) =>
            /\ raised = "historical"
            /\ error.type = "KeyError"
            /\ Printed("main_error")
            /\ Mentions(MainErrorText, HistColumns[i])
            /\ Mentions(MainErrorText, "historical")

----------------------------------------------------------------------------
(* C12: the registry's tables *)

GrowthColumns == {"Demand_Growth_pct", "Cost_Growth_pct"}

\* the columns a step may have added to the table of key k so far
AddedColumns(k) ==
    IF k = "historical" /\ RanStep("historical") THEN GrowthColumns ELSE {}

----------------------------------------------------------------------------
(* C13: fewer than two observations *)

\* C13: a CAGR line is printed only for a historical table of at least two rows
C13_CagrNeedsTwoObservations ==
    (Printed("demand_cagr") \/ Printed("cost_cagr")) => Len(Hist) >= 2

----------------------------------------------------------------------------
(* C15: a file that cannot be parsed *)

\* C15: once load_all_data has returned, a failure to parse a file has been
\* logged and every other file that exists is in the registry
C15_OtherDatasetsStillLoaded ==
    pc # "load" =>
        /\ unreadable # {} => Printed("load_error")
        /\ \A k \in DOMAIN files \ unreadable : k \in DOMAIN data

----------------------------------------------------------------------------
(* C14: the registry after several loads *)

LoadEnds == {i \in 1..Len(printed) : printed[i].kind = "loaded_count"}

\* the keys the most recent call of load_all_data found a file for: its
\* "loaded" lines, between the count lines of the last two calls
FoundByLastLoad ==
    LET last == CHOOSE i \in LoadEnds : \A j \in LoadEnds : j <= i
        before == {j \in LoadEnds : j < last}
        prev == IF before = {} THEN 0 ELSE CHOOSE i \in before : \A j \in before : j <= i
    IN  {printed[i].key : i \in {j \in (prev + 1)..(last - 1) : printed[j].kind = "loaded"}}

\* C14: after any calls of load_all_data the registry holds exactly the keys
\* whose file the most recent call found
C14_RegistryIsLastLoad ==
    LoadEnds # {} => DOMAIN data = FoundByLastLoad

----------------------------------------------------------------------------
(* C16: the standalone run *)

\* place of the announcement of a step in the output, 0 if it has not started
StartOf(step) ==
    IF RanStep(step)
    THEN CHOOSE i \in 1..Len(printed) : printed[i] = Line("step", step, None)
    ELSE 0

StartsOf(step) == {i \in 1..Len(printed) : printed[i] = Line("step", step, None)}

\* the four files hold what this run generated
AllCsvWritten ==
    \A i \in 1..Len(GenOrder) :
        /\ CsvName(GenOrder[i]) \in DOMAIN files
        /\ files[CsvName(GenOrder[i])] = Generated(GenOrder[i])

\* C16: the four steps start at most once each and in the order generate,
\* key metrics, visualizations, save; a step starts only after every earlier
\* step has started and none of them raised; no file is written before step
\* 4 starts; all four files are written, and the banner printed, only after
\* all four steps ran without an exception; a raised exception always ends in the handler, which prints
\* it, and the run returns to the caller.
C16_StepsInOrderExceptionsCaught ==
    /\ pc \in {"generate", "key_metrics", "visualizations", "save_csv",
               "banner", "caught", "returned"}
    /\ \A i \in 1..Len(RunOrder) : Cardinality(StartsOf(RunOrder[i])) <= 1
    /\ \A i \in 2..Len(RunOrder) :
          RanStep(RunOrder[i]) =>
              /\ RanStep(RunOrder[i - 1])
              /\ StartOf(RunOrder[i - 1]) < StartOf(RunOrder[i])
              /\ \A j \in 1..(i - 1) : raised # RunOrder[j]
    /\ (AllCsvWritten \/ Printed("banner")) =>
          /\ raised = "none"
          /\ AllCsvWritten
          /\ \A i \in 1..Len(RunOrder) : RanStep(RunOrder[i])
          /\ pc \in {"banner", "returned"}
    /\ (\E f \in DOMAIN files : files[f] # StaleTable) => RanStep("save_csv")
    /\ raised # "none" =>
          /\ pc \in {"caught", "returned"}
          /\ ~Printed("banner")
          /\ pc = "returned" => Printed("analysis_error")
    /\ Printed("analysis_error") => raised # "none" /\ pc = "returned"

\* the figure could not be shown: the handler reported it, step 4 never
\* started and an older file is still what it was
C16_Witness ==
    /\ pc = "returned"
    /\ raised = "visualizations"
    /\ Printed("analysis_error")
    /\ RanStep("key_metrics")
    /\ ~RanStep("save_csv")
    /\ \E f \in DOMAIN files : files[f] = StaleTable

====
